---- MODULE Spec2Model ----
(***************************************************************************)
(* Model of the LangGraph RAG pipeline of app/graph: the stage functions   *)
(* of nodes.py, the graph wiring, rank fusion and context assembly of      *)
(* build.py.                                                               *)
(*                                                                         *)
(* Python strings are sequences of one-character strings; a few fixed      *)
(* texts (prompt-independent templates, exception messages) are single     *)
(* atoms of such a sequence.  An absent mapping key, None and "" behave    *)
(* alike under the `x or y` and `if x` tests the code applies, so all      *)
(* three are the empty sequence.                                           *)
(***************************************************************************)
EXTENDS Integers, Sequences, FiniteSets, TLC

VARIABLES pc, arg, ret, policy, deps, retriever, state, trace, calls

vars == <<pc, arg, ret, policy, deps, retriever, state, trace, calls>>

(***************************************************************************)
(* Bounds of the model.                                                    *)
(***************************************************************************)
MaxRuns == 2
MaxRunLen == 2
MaxK == 2
MaxCtxDocs == 2
MaxChars == 12
MaxResults == 2
MaxAlts == 2
MaxLines == 3
\* the longest exception message, in words, given to the error handler
MaxDetail == 2
\* the most fragments a completion given to synthesize_node is made of
MaxFragments == 2

(***************************************************************************)
(* Sequences and strings.                                                  *)
(***************************************************************************)
Min(a, b) == IF a < b THEN a ELSE b

SeqsUpTo(S, n) == UNION {[1..m -> S] : m \in 0..n}

Range(s) == {s[i] : i \in 1..Len(s)}

\* A slice that keeps everything.
TakeAll(s, n) == s

\* s[:n] for n >= 0
Take(s, n) == SubSeq(s, 1, Min(n, Len(s)))

Truthy(s) == s # <<>>

\* x or y
Or(x, y) == IF Truthy(x) THEN x ELSE y

IsSpace(ch) == ch \in {" ", "\t", "\n"}

RECURSIVE LStrip(_)
LStrip(s) ==
    IF s # <<>> /\ IsSpace(Head(s)) THEN LStrip(Tail(s)) ELSE s

RECURSIVE RStrip(_)
RStrip(s) ==
    IF s # <<>> /\ IsSpace(s[Len(s)]) THEN RStrip(SubSeq(s, 1, Len(s) - 1)) ELSE s

\* str.strip()
Strip(s) == RStrip(LStrip(s))

Digits == <<"0", "1", "2", "3", "4", "5", "6", "7", "8", "9">>

\* str(n) for n >= 0
RECURSIVE IntStr(_)
IntStr(n) ==
    IF n < 10 THEN <<Digits[n + 1]>>
    ELSE IntStr(n \div 10) \o <<Digits[(n % 10) + 1]>>

\* sep.join(parts)
RECURSIVE Join(_, _)
Join(parts, sep) ==
    IF parts = <<>> THEN <<>>
    ELSE IF Len(parts) = 1 THEN parts[1]
    ELSE parts[1] \o sep \o Join(Tail(parts), sep)

RECURSIVE SumLens(_)
SumLens(parts) ==
    IF parts = <<>> THEN 0 ELSE Len(Head(parts)) + SumLens(Tail(parts))

(***************************************************************************)
(* Documents.  metadata is the fields id, uid (the key "_id"), title and   *)
(* source; content is page_content.                                        *)
(***************************************************************************)
Doc(id, uid, title, source, content) ==
    [id |-> id, uid |-> uid, title |-> title, source |-> source, content |-> content]

\* hash(page_content): an identifier of its own kind, equal for equal contents
Hash(content) == <<"hash">> \o content

\* d.metadata.get("id") or d.metadata.get("_id") or hash(d.page_content)
DocId(d) == Or(d.id, Or(d.uid, Hash(d.content)))

\* The documents the search providers hold: two that resolve to the identifier
\* "a" (one by id, one by an empty id and _id) with different contents, and one
\* with neither key, identified by the hash of its content.
dA == Doc(<<"a">>, <<>>, <<>>, <<>>, <<"x">>)
dA2 == Doc(<<>>, <<"a">>, <<>>, <<>>, <<"y">>)
dH == Doc(<<>>, <<>>, <<>>, <<>>, <<"x">>)
Corpus == {dA, dA2, dH}

(***************************************************************************)
(* nodes.py: _unique_by_id                                                 *)
(***************************************************************************)
RECURSIVE UniqueLoop(_, _, _, _)
UniqueLoop(docs, i, seen, out) ==
    IF i > Len(docs) THEN out
    ELSE LET doc_id == DocId(docs[i])
         IN  IF doc_id \in seen
             THEN UniqueLoop(docs, i + 1, seen, out)
             ELSE UniqueLoop(docs, i + 1, seen \cup {doc_id}, Append(out, docs[i]))

\* No deduplication at all.
unique_by_id_keeping_all(docs) == docs

unique_by_id(docs) == UniqueLoop(docs, 1, {}, <<>>)

(***************************************************************************)
(* build.py: simple_rrf_fuse                                               *)
(***************************************************************************)
\* The default of the damping constant c.
RrfC == 60

\* A walk that takes the runs from the last to the first.
RECURSIVE WalkRunsLastFirst(_)
WalkRunsLastFirst(runs) ==
    IF runs = <<>> THEN <<>>
    ELSE WalkRunsLastFirst(Tail(runs))
         \o [i \in 1..Len(Head(runs)) |-> [doc |-> Head(runs)[i], rank |-> i]]

\* The walk `for run in runs: for rank, doc in enumerate(run, start=1)`.
RECURSIVE WalkRuns(_)
WalkRuns(runs) ==
    IF runs = <<>> THEN <<>>
    ELSE [i \in 1..Len(Head(runs)) |-> [doc |-> Head(runs)[i], rank |-> i]]
         \o WalkRuns(Tail(runs))

\* The keys of the dict `scores` in insertion order.
RECURSIVE ScoreKeys(_, _, _)
ScoreKeys(walk, i, keys) ==
    IF i > Len(walk) THEN keys
    ELSE LET doc_id == DocId(walk[i].doc)
         IN  ScoreKeys(walk, i + 1,
                       IF doc_id \in Range(keys) THEN keys ELSE Append(keys, doc_id))

RECURSIVE Prod(_, _, _)
Prod(c, lo, hi) == IF lo > hi THEN 1 ELSE (c + lo) * Prod(c, lo + 1, hi)

RECURSIVE MaxLen(_)
MaxLen(runs) ==
    IF runs = <<>> THEN 0
    ELSE LET m == MaxLen(Tail(runs))
         IN  IF Len(Head(runs)) > m THEN Len(Head(runs)) ELSE m

\* The common denominator of every 1.0 / (c + rank) of the walk.
ScoreDen(runs, c) == Prod(c, 1, MaxLen(runs))

\* scores[doc_id], the sum of 1.0 / (c + rank), as the exact numerator over
\* ScoreDen(runs, c).
RECURSIVE ScoreSum(_, _, _, _, _)
ScoreSum(walk, i, doc_id, c, den) ==
    IF i > Len(walk) THEN 0
    ELSE (IF DocId(walk[i].doc) = doc_id THEN den \div (c + walk[i].rank) ELSE 0)
         + ScoreSum(walk, i + 1, doc_id, c, den)

Score(runs, c, doc_id) == ScoreSum(WalkRuns(runs), 1, doc_id, c, ScoreDen(runs, c))

\* The dict `scores` after the first walk, as the sequence of its values in
\* insertion order (ScoreKeys gives the keys).
Scores(runs, c) ==
    LET walk == WalkRuns(runs)
        den == ScoreDen(runs, c)
        keys == ScoreKeys(walk, 1, <<>>)
    IN  [i \in 1..Len(keys) |-> ScoreSum(walk, 1, keys[i], c, den)]

\* A sort that forgot reverse=True.
OrderPosAscending(sc, i) ==
    1 + Cardinality({j \in DOMAIN sc : sc[j] < sc[i] \/ (sc[j] = sc[i] /\ j < i)})

\* The 1-based place of the i-th key in
\* sorted(scores.items(), key=lambda kv: kv[1], reverse=True): the sort is
\* stable, so equal scores keep their insertion order.
OrderPos(sc, i) ==
    1 + Cardinality({j \in DOMAIN sc : sc[j] > sc[i] \/ (sc[j] = sc[i] /\ j < i)})

\* keep_ids = set(x[0] for x in order[:k])
KeepIds(runs, k, c) ==
    LET keys == ScoreKeys(WalkRuns(runs), 1, <<>>)
        sc == Scores(runs, c)
    IN  {keys[i] : i \in {j \in 1..Len(keys) : OrderPos(sc, j) <= k}}

\* The second walk, which returns as soon as len(out) >= k after a document.
RECURSIVE FuseLoop(_, _, _, _, _, _)
FuseLoop(walk, i, keep_ids, seen, out, k) ==
    IF i > Len(walk) THEN out
    ELSE LET doc_id == DocId(walk[i].doc)
             take == doc_id \in keep_ids /\ doc_id \notin seen
             out2 == IF take THEN Append(out, walk[i].doc) ELSE out
             seen2 == IF take THEN seen \cup {doc_id} ELSE seen
         IN  IF Len(out2) >= k THEN out2
             ELSE FuseLoop(walk, i + 1, keep_ids, seen2, out2, k)

simple_rrf_fuse(runs, k, c) ==
    FuseLoop(WalkRuns(runs), 1, KeepIds(runs, k, c), {}, <<>>, k)

(***************************************************************************)
(* build.py: default_build_context                                         *)
(***************************************************************************)
\* meta.get("title") or meta.get("source") or meta.get("_id") or f"doc{i}"
BlockTitle(d, i) == Or(d.title, Or(d.source, Or(d.uid, <<"d", "o", "c">> \o IntStr(i))))

\* piece = f"[{title}]\n{chunk}\n"
Piece(d, i) == <<"[">> \o BlockTitle(d, i) \o <<"]", "\n">> \o Strip(d.content) \o <<"\n">>

\* a loop that passes over a block that does not fit and goes on to the next
RECURSIVE ContextLoopSkipping(_, _, _, _, _)
ContextLoopSkipping(docs, i, out, used, max_chars) ==
    IF i > Len(docs) THEN out
    ELSE LET piece == Piece(docs[i], i)
         IN  IF used + Len(piece) > max_chars
             THEN ContextLoopSkipping(docs, i + 1, out, used, max_chars)
             ELSE ContextLoopSkipping(docs, i + 1, Append(out, piece), used + Len(piece), max_chars)

RECURSIVE ContextLoop(_, _, _, _, _)
ContextLoop(docs, i, out, used, max_chars) ==
    IF i > Len(docs) THEN out
    ELSE LET piece == Piece(docs[i], i)
         IN  IF used + Len(piece) > max_chars THEN out
             ELSE ContextLoop(docs, i + 1, Append(out, piece), used + Len(piece), max_chars)

default_build_context(docs, max_chars) ==
    Join(ContextLoop(docs, 1, <<>>, 0, max_chars), <<"\n">>)

(***************************************************************************)
(* The state dict of a run (state.py: RAGState; the nodes use it as a      *)
(* dict).  An unset error is the empty sequence: check_error and every     *)
(* writer treat None, a missing key and "" alike, and a stage only ever    *)
(* writes a non-empty error.                                               *)
(***************************************************************************)
NoFilters == [hostname |-> <<>>, service_name |-> <<>>, error_code |-> <<>>]

NoMetrics ==
    [extracted_count |-> -1, queries |-> -1, docs |-> -1, rrf_on |-> FALSE,
     metadata_filters |-> NoFilters, warnings |-> <<>>,
     error_handled |-> FALSE, error_type |-> <<>>]

\* initial_state of routes.py: the query, and raw_texts when given.
InitialState(query, raw_texts) ==
    [query |-> query, raw_texts |-> raw_texts, extracted_data |-> <<>>,
     route |-> "fast", queries |-> <<>>, docs |-> <<>>, context |-> <<>>,
     answer |-> <<>>, error |-> <<>>, metrics |-> NoMetrics]

\* f"{stage}_error: {str(e)}"
ErrorText(prefix, msg) == <<prefix, ":", " ">> \o msg

\* str() of tenacity's RetryError, raised when the last attempt has failed.
RetryErrorMsg == <<"RetryError">>

StopAfterAttempt == 3

(***************************************************************************)
(* Provider calls under tenacity's @retry.  A call is described by the     *)
(* number of its attempts that raise before one returns; StopAfterAttempt  *)
(* failures exhaust the retries.  Within one stage at most one call has    *)
(* failing attempts: a fault is the call's position and its failures.      *)
(***************************************************************************)
NoFault == [call |-> 0, fails |-> 0]

Faults(ncalls) ==
    {NoFault} \cup [call : 1..ncalls, fails : 1..StopAfterAttempt]

FailsOf(fault, call) == IF fault.call = call THEN fault.fails ELSE 0

\* The attempts made for a call: every failing one, and the one that returns.
Attempts(fails) == IF fails >= StopAfterAttempt THEN StopAfterAttempt ELSE fails + 1

Repeat(x, n) == [i \in 1..n |-> x]

\* A single attempt, whatever it does.
LlmAttemptsOnce(request, fails) == <<[request |-> request, raised |-> fails > 0]>>

\* The attempts of one llm.invoke under retry, as the provider sees them.
LlmAttempts(request, fails) ==
    [i \in 1..Attempts(fails) |-> [request |-> request, raised |-> i <= fails]]

(***************************************************************************)
(* nodes.py: extract_node                                                  *)
(***************************************************************************)
ConfidenceThreshold == 7

\* One result of batch_extract: the confidence in tenths and the entities the
\* later stages read.
ExtractItems ==
    { [confidence |-> 9, hostname |-> <<"h">>, service_name |-> <<>>, error_code |-> <<>>],
      [confidence |-> 5, hostname |-> <<"h">>, service_name |-> <<"s">>, error_code |-> <<>>] }

\* What _extract_with_retry does: `retryable` ConnectionError/TimeoutError
\* attempts, then (if attempts are left) an attempt that returns `results`
\* ("ok") or raises another kind of error with message `msg` ("other").
ExtractOutcomes(raw_texts) ==
    [retryable : 0..(StopAfterAttempt - 1), last : {"ok"},
     results : [1..Len(raw_texts) -> ExtractItems], msg : {<<>>}]
    \cup [retryable : 0..(StopAfterAttempt - 1), last : {"other"},
          results : {<<>>}, msg : {<<"boom">>}]
    \cup [retryable : {StopAfterAttempt}, last : {"retry_error"},
          results : {<<>>}, msg : {RetryErrorMsg}]

\* A stage that records an error as soon as one attempt has failed.
extract_node_failing_on_retry(st, has_service, out) ==
    IF st.raw_texts = <<>> \/ ~has_service
    THEN [st EXCEPT !.extracted_data = <<>>]
    ELSE IF out.last # "ok" \/ out.retryable > 0
    THEN [st EXCEPT !.error = ErrorText("extract_error", out.msg),
                    !.extracted_data = <<>>]
    ELSE [st EXCEPT !.extracted_data = out.results,
                    !.metrics.extracted_count = Len(out.results)]

extract_node(st, has_service, out) ==
    IF st.raw_texts = <<>> \/ ~has_service
    THEN [st EXCEPT !.extracted_data = <<>>]
    ELSE IF out.last # "ok"
    THEN [st EXCEPT !.error = ErrorText("extract_error", out.msg),
                    !.extracted_data = <<>>]
    ELSE [st EXCEPT !.extracted_data = out.results,
                    !.metrics.extracted_count = Len(out.results)]

\* The attempts of batch_extract extract_node makes, each with what it
\* raised: a ConnectionError or TimeoutError ("retryable"), another kind of
\* error ("other") or nothing ("none").
ExtractCalls(st, has_service, out) ==
    IF st.raw_texts = <<>> \/ ~has_service THEN <<>>
    ELSE Repeat([raised |-> "retryable"], out.retryable)
         \o (IF out.last = "retry_error" THEN <<>>
             ELSE <<[raised |-> IF out.last = "ok" THEN "none" ELSE "other"]>>)

(***************************************************************************)
(* nodes.py: plan_node                                                     *)
(***************************************************************************)
HydeMaxChars == 400

LowerCh(ch) == IF ch = "Q" THEN "q" ELSE IF ch = "R" THEN "r" ELSE ch

\* str.lower()
Lower(s) == [i \in 1..Len(s) |-> LowerCh(s[i])]

Contains(s, sub) ==
    \E i \in 1..(Len(s) - Len(sub) + 1) : SubSeq(s, i, i + Len(sub) - 1) = sub

\* str.splitlines()
RECURSIVE SplitLines(_)
SplitLines(s) ==
    IF s = <<>> THEN <<>>
    ELSE IF \E i \in 1..Len(s) : s[i] = "\n"
    THEN LET i == CHOOSE j \in 1..Len(s) : s[j] = "\n" /\ \A m \in 1..(j - 1) : s[m] # "\n"
         IN  <<SubSeq(s, 1, i - 1)>> \o SplitLines(SubSeq(s, i + 1, Len(s)))
    ELSE <<s>>

RECURSIVE LStripChars(_, _)
LStripChars(s, chars) ==
    IF s # <<>> /\ Head(s) \in chars THEN LStripChars(Tail(s), chars) ELSE s

RECURSIVE RStripChars(_, _)
RStripChars(s, chars) ==
    IF s # <<>> /\ s[Len(s)] \in chars
    THEN RStripChars(SubSeq(s, 1, Len(s) - 1), chars) ELSE s

\* line.strip(" -<bullet>\t"); "bullet" is the one character U+2022
StripBullets(line) ==
    RStripChars(LStripChars(line, {" ", "-", "bullet", "\t"}), {" ", "-", "bullet", "\t"})

\* The five markers of plan_node, each CJK character named by its pinyin.
AmbiguityMarkers ==
    { <<"wei", "shen", "me">>, <<"zen", "me">>, <<"yuan", "yin">>, <<"yi", "chang">>,
      <<"bu", "wen", "ding">> }

AmbiguousLen == 8

Ambiguous(q) == Len(q) < AmbiguousLen \/ \E t \in AmbiguityMarkers : Contains(q, t)

\* A route decided by the policy alone.
RouteByPolicyOnly(q, pol) == IF pol.use_hyde \/ pol.use_multi_query THEN "deep" ELSE "fast"

Route(q, pol) ==
    IF pol.use_hyde \/ pol.use_multi_query \/ Ambiguous(q) THEN "deep" ELSE "fast"

QueryCap(pol) == 1 + pol.multi_query_alts + (IF pol.use_hyde THEN 2 ELSE 0)

\* A loop that puts each alternative in front of the queries gathered so far.
RECURSIVE MultiQueryLoopPrepending(_, _, _, _, _)
MultiQueryLoopPrepending(lines, i, queries, q, cap) ==
    IF i > Len(lines) THEN queries
    ELSE LET line == StripBullets(lines[i])
             queries2 == IF Truthy(line) /\ Lower(line) # Lower(q)
                         THEN <<line>> \o queries ELSE queries
         IN  IF Len(queries2) >= cap THEN queries2
             ELSE MultiQueryLoopPrepending(lines, i + 1, queries2, q, cap)

\* The loop over text.splitlines(), which breaks once the cap is reached
\* after a line.
RECURSIVE MultiQueryLoop(_, _, _, _, _)
MultiQueryLoop(lines, i, queries, q, cap) ==
    IF i > Len(lines) THEN queries
    ELSE LET line == StripBullets(lines[i])
             queries2 == IF Truthy(line) /\ Lower(line) # Lower(q)
                         THEN Append(queries, line) ELSE queries
         IN  IF Len(queries2) >= cap THEN queries2
             ELSE MultiQueryLoop(lines, i + 1, queries2, q, cap)

DoesHyde(q, pol) == Route(q, pol) = "deep" /\ pol.use_hyde

DoesMultiQuery(q, pol) == Route(q, pol) = "deep" /\ pol.use_multi_query

\* The logical llm calls of plan_node, in order.
PlanRequests(q, pol) ==
    (IF DoesHyde(q, pol) THEN <<"hyde">> ELSE <<>>)
    \o (IF DoesMultiQuery(q, pol) THEN <<"multi_query">> ELSE <<>>)

\* The position of a request among the stage's calls (0: not made).
RequestPos(reqs, name) ==
    IF \E i \in 1..Len(reqs) : reqs[i] = name
    THEN CHOOSE i \in 1..Len(reqs) : reqs[i] = name ELSE 0

\* Whether the call at position `pos` exhausts its retries.
Exhausted(fault, pos) == pos > 0 /\ FailsOf(fault, pos) >= StopAfterAttempt

\* An except branch that keeps the queries gathered before the call raised.
OnPlanFailureKeepingQueries(q, gathered) == gathered

\* The except branch of plan_node: queries = [q], whatever had been gathered.
OnPlanFailure(q, gathered) == <<q>>

\* out: the fault among the stage's llm calls, and the completions hyde and mq
\* the llm returns to the two requests.
plan_node(st, pol, out) ==
    LET q == st.query
        reqs == PlanRequests(q, pol)
        hpos == RequestPos(reqs, "hyde")
        mpos == RequestPos(reqs, "multi_query")
        failed == Exhausted(out.fault, hpos) \/ Exhausted(out.fault, mpos)
        with_hyde == IF hpos > 0
                     THEN <<q, Take(Strip(out.hyde), HydeMaxChars)>> ELSE <<q>>
        queries == IF mpos > 0
                   THEN MultiQueryLoop(SplitLines(out.mq), 1, with_hyde, q, QueryCap(pol))
                   ELSE with_hyde
        final == IF failed
                 THEN OnPlanFailure(q, IF Exhausted(out.fault, hpos) THEN <<q>> ELSE with_hyde)
                 ELSE queries
    IN  [st EXCEPT !.error = IF failed THEN ErrorText("plan_error", RetryErrorMsg) ELSE @,
                   !.route = Route(q, pol),
                   !.queries = final,
                   !.metrics.queries = Len(final)]

\* The attempts of llm.invoke plan_node makes, by request: a request after one
\* whose retries are exhausted is never made.
PlanCalls(st, pol, out) ==
    LET reqs == PlanRequests(st.query, pol)
        hpos == RequestPos(reqs, "hyde")
        mpos == RequestPos(reqs, "multi_query")
    IN  (IF hpos > 0 THEN LlmAttempts("hyde", FailsOf(out.fault, hpos)) ELSE <<>>)
        \o (IF mpos > 0 /\ ~Exhausted(out.fault, hpos)
            THEN LlmAttempts("multi_query", FailsOf(out.fault, mpos)) ELSE <<>>)

(***************************************************************************)
(* The inputs of a run: requests, policies, collaborators and what the     *)
(* providers return.                                                       *)
(***************************************************************************)
\* A short query (ambiguous by its length) and a long one without a marker.
Queries == { <<"Q">>, <<"d", "i", "s", "k", " ", "f", "u", "l", "l">> }

RawTexts == { <<>>, <<"log">> }

\* Completions for the HyDE request: blank, and a passage.
HydeTexts == { <<" ">>, <<"h">> }

\* Completions for the multi-query request: nothing, and a bulleted
\* repetition of the short query in another case, an empty line and an
\* alternative.
MultiQueryTexts ==
    { <<>>, <<"-", " ", "q", "\n", "\n", "bullet", "r">> }

\* Completions for the synthesis request: blank, uncited, and cited with "[".
AnswerTexts == { <<" ", "\n">>, <<"o", "k">>, <<"[", "1", "]", " ", "o", "k">> }

DefaultPolicy ==
    [use_hyde |-> FALSE, use_multi_query |-> FALSE, multi_query_alts |-> 2,
     top_k |-> MaxK, use_rrf |-> FALSE, use_metadata_filter |-> TRUE,
     max_ctx_chars |-> MaxChars, strict_citation |-> TRUE,
     fallback_text |-> <<"fallback_text">>, min_docs |-> 2, min_answer_len |-> 4]

\* The options a policy sets apart from the defaults.
PolicyOptions == {"use_hyde", "use_multi_query", "multi_query_alts", "use_rrf", "strict_citation"}

PolicyWith(on) ==
    [DefaultPolicy EXCEPT !.use_hyde = "use_hyde" \in on,
                          !.use_multi_query = "use_multi_query" \in on,
                          !.multi_query_alts = IF "multi_query_alts" \in on THEN 0 ELSE 2,
                          !.use_rrf = "use_rrf" \in on,
                          !.strict_citation = "strict_citation" \notin on]

\* What build_context_fn and the llm do in synthesize_node: the context is
\* built and the call returns a text under some fault, or build_context_fn
\* raises.
SynthesizeOutcomes ==
    [assembly : {"ok"}, fault : Faults(1), text : AnswerTexts]
    \cup [assembly : {"raises"}, fault : {NoFault}, text : {<<>>}]

\* The policies of the runs: the defaults with up to two options changed.
Policies == {PolicyWith(on) : on \in {x \in SUBSET PolicyOptions : Cardinality(x) <= 2}}

\* build_graph's collaborators: whether extract_service is given;
\* bm25_search_fn is, and rrf_fuse_fn defaults to simple_rrf_fuse.
Collaborators ==
    [extract_service : BOOLEAN, bm25_search_fn : {TRUE}, rrf_fuse_fn : {TRUE}]

(***************************************************************************)
(* nodes.py: retrieve_node                                                 *)
(***************************************************************************)
\* The loop that builds metadata_filters: a later high-confidence entry
\* overwrites the keys it has.
RECURSIVE FiltersLoop(_, _, _)
FiltersLoop(data, i, f) ==
    IF i > Len(data) THEN f
    ELSE FiltersLoop(data, i + 1,
            IF data[i].confidence > ConfidenceThreshold
            THEN [hostname |-> Or(data[i].hostname, f.hostname),
                  service_name |-> Or(data[i].service_name, f.service_name),
                  error_code |-> Or(data[i].error_code, f.error_code)]
            ELSE f)

MetadataFilters(st, pol) ==
    IF pol.use_metadata_filter /\ st.extracted_data # <<>>
    THEN FiltersLoop(st.extracted_data, 1, NoFilters)
    ELSE NoFilters

EnableRrf(pol, dp) == pol.use_rrf /\ dp.bm25_search_fn /\ dp.rrf_fuse_fn

\* A vector loop that gives up at the first attempt that raises.
VecFailAtFirstFailure(nq, fault) ==
    IF fault.call \in 1..nq /\ fault.fails >= 1 THEN fault.call ELSE 0

\* The position of the first vector call that exhausts its retries (0: none).
VecFailAt(nq, fault) ==
    IF fault.call \in 1..nq /\ fault.fails >= StopAfterAttempt THEN fault.call ELSE 0

\* The bm25 call is the one after the vector calls.
LexFails(nq, fault) == FailsOf(fault, nq + 1)

\* vec_docs_all.extend(docs[:top_k]) for each query
RECURSIVE ExtendAll(_, _, _)
ExtendAll(results, i, top_k) ==
    IF i > Len(results) THEN <<>>
    ELSE Take(results[i], top_k) \o ExtendAll(results, i + 1, top_k)

\* An except branch that keeps what the loop had collected.
OnVectorFailureKeepingDocs(st, vec_docs_all) ==
    [st EXCEPT !.error = ErrorText("retrieve_error", RetryErrorMsg),
               !.docs = vec_docs_all]

\* The except branch of the vector loop; vec_docs_all is what the loop had
\* collected when the call raised.
OnVectorFailure(st, vec_docs_all) ==
    [st EXCEPT !.error = ErrorText("retrieve_error", RetryErrorMsg),
               !.docs = <<>>]

\* An except branch that gives up the vector results as well.
OnLexicalFailureDroppingDocs(vec_docs_all, top_k) == <<>>

\* The except branch of the fusion block: docs_final = vec_docs_all[:top_k].
OnLexicalFailure(vec_docs_all, top_k) == Take(vec_docs_all, top_k)

\* out: the fault among the stage's calls, the documents vec[i] the vector
\* provider returns for the i-th query and the documents lex the lexical
\* provider returns.
retrieve_node(st, pol, dp, out) ==
    LET top_k == pol.top_k
        nq == Len(st.queries)
        failAt == VecFailAt(nq, out.fault)
        vec_docs_all == unique_by_id(ExtendAll(out.vec, 1, top_k))
        runs == <<Take(vec_docs_all, top_k), Take(out.lex, top_k)>>
        docs_final ==
            IF ~EnableRrf(pol, dp) THEN Take(vec_docs_all, top_k)
            ELSE IF LexFails(nq, out.fault) < StopAfterAttempt
            THEN unique_by_id(simple_rrf_fuse(runs, top_k, RrfC))
            ELSE OnLexicalFailure(vec_docs_all, top_k)
    IN  IF failAt > 0
        THEN OnVectorFailure(st, ExtendAll(SubSeq(out.vec, 1, failAt - 1), 1, top_k))
        ELSE [st EXCEPT !.docs = docs_final,
                        !.metrics.docs = Len(docs_final),
                        !.metrics.rrf_on = EnableRrf(pol, dp),
                        !.metrics.metadata_filters = MetadataFilters(st, pol)]

\* One attempt of _retrieve_with_retry for the pos-th query, as the provider
\* sees it: the query, the filter in search_kwargs during
\* get_relevant_documents, and whether it raised or which documents it returned.
VecAttempt(pos, query, filters, kwargs, raised, docs) ==
    [pos |-> pos, query |-> query,
     filter |-> IF filters # NoFilters THEN filters ELSE kwargs.filter,
     raised |-> raised, docs |-> docs]

\* The attempts of one call: `fails` that raise, then one that returns, unless
\* the retries are exhausted.
CallAttempts(pos, query, filters, kwargs, fails, docs) ==
    Repeat(VecAttempt(pos, query, filters, kwargs, TRUE, <<>>), Min(fails, StopAfterAttempt))
    \o (IF fails >= StopAfterAttempt THEN <<>>
        ELSE <<VecAttempt(pos, query, filters, kwargs, FALSE, docs)>>)

\* search_kwargs after one call under retry: an attempt that raises leaves the
\* filter it installed, and the next attempt saves that as the original.
KwargsAfterCall(kwargs, filters, fails) ==
    IF filters # NoFilters /\ fails > 0 THEN [kwargs EXCEPT !.filter = filters] ELSE kwargs

\* The vector calls made, in order, and search_kwargs after them.
RECURSIVE VecLoop(_, _, _, _, _, _, _)
VecLoop(queries, i, filters, out, kwargs, log, stop) ==
    IF i > Len(queries) \/ stop THEN [kwargs |-> kwargs, log |-> log]
    ELSE LET fails == FailsOf(out.fault, i)
         IN  VecLoop(queries, i + 1, filters, out,
                     KwargsAfterCall(kwargs, filters, fails),
                     log \o CallAttempts(i, queries[i], filters, kwargs, fails, out.vec[i]),
                     fails >= StopAfterAttempt)

RetrieveVec(st, pol, kwargs, out) ==
    VecLoop(st.queries, 1, MetadataFilters(st, pol), out, kwargs, <<>>, FALSE)

\* A lexical search given the last of the queries.
RetrieveLexCallsLastQuery(st, pol, dp, out) ==
    IF EnableRrf(pol, dp) /\ VecFailAt(Len(st.queries), out.fault) = 0
    THEN LET fails == LexFails(Len(st.queries), out.fault)
         IN  [i \in 1..Attempts(fails) |->
                [query |-> st.queries[Len(st.queries)], top_k |-> pol.top_k,
                 raised |-> i <= fails,
                 docs |-> IF i <= fails THEN <<>> ELSE out.lex]]
    ELSE <<>>

\* The calls bm25_search_fn(queries[0], top_k=top_k) made.
RetrieveLexCalls(st, pol, dp, out) ==
    IF EnableRrf(pol, dp) /\ VecFailAt(Len(st.queries), out.fault) = 0
    THEN LET fails == LexFails(Len(st.queries), out.fault)
         IN  [i \in 1..Attempts(fails) |->
                [query |-> st.queries[1], top_k |-> pol.top_k, raised |-> i <= fails,
                 docs |-> IF i <= fails THEN <<>> ELSE out.lex]]
    ELSE <<>>

(***************************************************************************)
(* nodes.py: synthesize_node                                               *)
(***************************************************************************)
\* "\n\n" and the eleven characters of the insufficient-citation note.
Disclaimer ==
    <<"\n", "\n", "fw(", "ti", "shi", "fw:", "lai", "yuan", "biao", "zhu", "bu", "zu", "fw)">>

CitationMark == <<"lai", "yuan">>

\* An except branch that records the error and leaves answer alone.
OnSynthesizeFailureKeepingAnswer(st, pol, msg) ==
    [st EXCEPT !.error = ErrorText("synthesize_error", msg)]

\* The except branch of synthesize_node.
OnSynthesizeFailure(st, pol, msg) ==
    [st EXCEPT !.error = ErrorText("synthesize_error", msg),
               !.answer = pol.fallback_text]

\* str() of the exception a build_context_fn raises.
AssemblyErrorMsg == <<"ContextError">>

\* out: whether build_context_fn raises (assembly), the fault of the one llm
\* call and the completion it returns.
synthesize_node(st, pol, out) ==
    LET context == default_build_context(st.docs, pol.max_ctx_chars)
        stripped == Strip(out.text)
        answer == IF pol.strict_citation /\ ~Contains(stripped, CitationMark)
                     /\ ~Contains(stripped, <<"[">>)
                  THEN stripped \o Disclaimer ELSE stripped
    IN  IF out.assembly = "raises"
        THEN OnSynthesizeFailure(st, pol, AssemblyErrorMsg)
        ELSE IF Exhausted(out.fault, 1)
        THEN OnSynthesizeFailure([st EXCEPT !.context = context], pol, RetryErrorMsg)
        ELSE [st EXCEPT !.context = context, !.answer = answer]

\* The attempts of llm.invoke synthesize_node makes: none when the context
\* could not be built.
SynthesizeCalls(out) ==
    IF out.assembly = "raises" THEN <<>>
    ELSE LlmAttempts("synthesize", FailsOf(out.fault, 1))

(***************************************************************************)
(* nodes.py: validate_node                                                 *)
(***************************************************************************)
\* A validation that also warns at the thresholds themselves.
validate_node_inclusive(st, pol) ==
    LET warnings == (IF Len(st.docs) <= pol.min_docs THEN <<"low_docs">> ELSE <<>>)
                    \o (IF Len(st.answer) <= pol.min_answer_len THEN <<"short_answer">> ELSE <<>>)
    IN  IF warnings # <<>> THEN [st EXCEPT !.metrics.warnings = warnings] ELSE st

validate_node(st, pol) ==
    LET warnings == (IF Len(st.docs) < pol.min_docs THEN <<"low_docs">> ELSE <<>>)
                    \o (IF Len(st.answer) < pol.min_answer_len THEN <<"short_answer">> ELSE <<>>)
    IN  IF warnings # <<>> THEN [st EXCEPT !.metrics.warnings = warnings] ELSE st

(***************************************************************************)
(* nodes.py: error_handler_node                                            *)
(***************************************************************************)
HasText(s, word) == \E i \in 1..Len(s) : s[i] = word

FallbackMsg(error_msg) ==
    IF HasText(error_msg, "extract_error") THEN "extract_template"
    ELSE IF HasText(error_msg, "plan_error") THEN "plan_template"
    ELSE IF HasText(error_msg, "retrieve_error") THEN "retrieve_template"
    ELSE IF HasText(error_msg, "synthesize_error") THEN "synthesize_template"
    ELSE "generic_template"

\* error_msg.split(":")[0] if ":" in error_msg else "unknown"
ErrorType(error_msg) ==
    IF HasText(error_msg, ":")
    THEN SubSeq(error_msg, 1, (CHOOSE i \in 1..Len(error_msg) :
                    error_msg[i] = ":" /\ \A j \in 1..(i - 1) : error_msg[j] # ":") - 1)
    ELSE <<"unknown">>

\* A handler that keeps an answer that is already there.
error_handler_node_keeping_answer(st) ==
    LET error_msg == IF st.error = <<>> THEN <<"Unknown error occurred">> ELSE st.error
    IN  [st EXCEPT !.answer = IF @ # <<>> THEN @
                               ELSE <<FallbackMsg(error_msg), "\n", "\n",
                                      "cuo", "wu", "xiang", "qing", "fw:">> \o error_msg,
                   !.metrics.error_handled = TRUE,
                   !.metrics.error_type = ErrorType(error_msg)]

error_handler_node(st) ==
    LET error_msg == IF st.error = <<>> THEN <<"Unknown error occurred">> ELSE st.error
    IN  [st EXCEPT !.answer = <<FallbackMsg(error_msg), "\n", "\n",
                               "cuo", "wu", "xiang", "qing", "fw:">> \o error_msg,
                   !.metrics.error_handled = TRUE,
                   !.metrics.error_type = ErrorType(error_msg)]

(***************************************************************************)
(* build.py: build_graph                                                   *)
(***************************************************************************)
\* A router that ignores the error field.
check_error_ignoring(st) == "continue"

check_error(st) == IF Truthy(st.error) THEN "error_handler" ELSE "continue"

\* Conditional edges of which plan's leads past retrieve.
ContinueEdgeSkipping(node) ==
    CASE node = "extract" -> "plan"
      [] node = "plan" -> "synthesize"
      [] node = "retrieve" -> "synthesize"
      [] node = "synthesize" -> "validate"

\* The "continue" targets of the conditional edges.
ContinueEdge(node) ==
    CASE node = "extract" -> "plan"
      [] node = "plan" -> "retrieve"
      [] node = "retrieve" -> "synthesize"
      [] node = "synthesize" -> "validate"

\* A graph in which error_handler leads on to validate.
PlainEdgeChained(node) == IF node = "error_handler" THEN "validate" ELSE "END"

\* graph.add_edge("validate", END); graph.add_edge("error_handler", END)
PlainEdge(node) == "END"

NextNode(node, st) ==
    IF node \in {"validate", "error_handler"} THEN PlainEdge(node)
    ELSE IF check_error(st) = "error_handler" THEN "error_handler"
    ELSE ContinueEdge(node)

\* graph.add_edge(START, ...)
EntryNode(dp) == IF dp.extract_service THEN "extract" ELSE "plan"

(***************************************************************************)
(* One run of the graph: an action per node.                               *)
(***************************************************************************)
\* calls: the provider calls of the node that ran last.
NoCalls == [extract |-> <<>>, llm |-> <<>>, vec |-> <<>>, bm25 |-> <<>>, context |-> "none"]

Step(node, st) ==
    /\ state' = st
    /\ pc' = NextNode(node, st)
    /\ trace' = Append(trace, node)

Extract ==
    /\ pc = "extract"
    /\ \E out \in ExtractOutcomes(state.raw_texts) :
        /\ Step("extract", extract_node(state, deps.extract_service, out))
        /\ calls' = [NoCalls EXCEPT !.extract = ExtractCalls(state, deps.extract_service, out)]
    /\ UNCHANGED <<arg, ret, policy, deps, retriever>>

Plan ==
    /\ pc = "plan"
    /\ \E fault \in Faults(Len(PlanRequests(state.query, policy))) :
       \E hyde \in HydeTexts : \E mq \in MultiQueryTexts :
        LET out == [fault |-> fault, hyde |-> hyde, mq |-> mq]
        IN  /\ Step("plan", plan_node(state, policy, out))
            /\ calls' = [NoCalls EXCEPT !.llm = PlanCalls(state, policy, out)]
    /\ UNCHANGED <<arg, ret, policy, deps, retriever>>

Retrieve ==
    /\ pc = "retrieve"
    /\ LET nq == Len(state.queries)
           rrf == EnableRrf(policy, deps)
           page == SeqsUpTo(Corpus, retriever.page)
       IN  \E fault \in Faults(nq + (IF rrf THEN 1 ELSE 0)) :
           \E vec \in [1..nq -> page] :
           \E lex \in (IF rrf THEN page ELSE {<<>>}) :
            LET out == [fault |-> fault, vec |-> vec, lex |-> lex]
                v == RetrieveVec(state, policy, retriever.search_kwargs, out)
            IN  /\ Step("retrieve", retrieve_node(state, policy, deps, out))
                /\ retriever' = [retriever EXCEPT !.search_kwargs = v.kwargs]
                /\ calls' = [NoCalls EXCEPT !.vec = v.log,
                                            !.bm25 = RetrieveLexCalls(state, policy, deps, out)]
    /\ UNCHANGED <<arg, ret, policy, deps>>

Synthesize ==
    /\ pc = "synthesize"
    /\ \E out \in SynthesizeOutcomes :
        /\ Step("synthesize", synthesize_node(state, policy, out))
        /\ calls' = [NoCalls EXCEPT !.llm = SynthesizeCalls(out),
                                    !.context = out.assembly]
    /\ UNCHANGED <<arg, ret, policy, deps, retriever>>

Validate ==
    /\ pc = "validate"
    /\ Step("validate", validate_node(state, policy))
    /\ calls' = NoCalls
    /\ UNCHANGED <<arg, ret, policy, deps, retriever>>

ErrorHandler ==
    /\ pc = "error_handler"
    /\ Step("error_handler", error_handler_node(state))
    /\ calls' = NoCalls
    /\ UNCHANGED <<arg, ret, policy, deps, retriever>>

Next == Extract \/ Plan \/ Retrieve \/ Synthesize \/ Validate \/ ErrorHandler

Init ==
    /\ arg = <<>>
    /\ ret = <<>>
    /\ policy \in Policies
    /\ deps \in Collaborators
    /\ retriever = [page |-> 1, search_kwargs |-> [filter |-> NoFilters]]
    /\ \E query \in Queries :
       \E raw_texts \in (IF deps.extract_service THEN RawTexts ELSE {<<>>}) :
        state = InitialState(query, raw_texts)
    /\ pc = EntryNode(deps)
    /\ trace = <<>>
    /\ calls = NoCalls

Spec == Init /\ [][Next]_vars

\* The graph runtime runs the node an edge leads to, and a node returns once
\* its provider calls have returned or raised: a run does not stop before END.
\* Liveness is checked on the runs of every policy against providers that
\* find no document, and on the runs of the default policy against providers
\* that return up to one.
InitFair ==
    /\ arg = <<>>
    /\ ret = <<>>
    /\ policy \in Policies
    /\ deps \in Collaborators
    /\ \E page \in (IF policy = PolicyWith({}) THEN {0, 1} ELSE {0}) :
        retriever = [page |-> page, search_kwargs |-> [filter |-> NoFilters]]
    /\ \E query \in Queries :
       \E raw_texts \in (IF deps.extract_service THEN RawTexts ELSE {<<>>}) :
        state = InitialState(query, raw_texts)
    /\ pc = EntryNode(deps)
    /\ trace = <<>>
    /\ calls = NoCalls

SpecFair == InitFair /\ [][Next]_vars /\ WF_vars(Next)

(***************************************************************************)
(* Properties of a run of the graph.                                       *)
(***************************************************************************)
Last(s) == s[Len(s)]

Ran(node) == \E i \in 1..Len(trace) : trace[i] = node

Ended == pc = "END"

C2_AnswerNonEmptyAtEnd == Ended => state.answer # <<>>

\* C3: the stage after extract, plan, retrieve or synthesize is error_handler
\* when the stage left error set and the normal successor otherwise, and in a
\* state whose error is set the only stage that can run is error_handler.
C3_ErrorRouting ==
    [][/\ pc \in {"extract", "plan", "retrieve", "synthesize"} =>
            /\ trace' = Append(trace, pc)
            /\ pc' = IF state'.error # <<>> THEN "error_handler"
                     ELSE CASE pc = "extract" -> "plan"
                            [] pc = "plan" -> "retrieve"
                            [] pc = "retrieve" -> "synthesize"
                            [] pc = "synthesize" -> "validate"
       /\ state.error # <<>> => pc = "error_handler" /\ pc' = "END"]_vars

\* A run in which synthesize set error and error_handler ran next.
C3_Witness ==
    /\ Len(trace) >= 2
    /\ trace[Len(trace) - 1] = "synthesize"
    /\ Last(trace) = "error_handler"
    /\ state.error # <<>>

\* C4: once plan_node has run, queries is non-empty and its first element is
\* the query, through every later stage.
C4_FirstQueryIsQuery ==
    Ran("plan") => state.queries # <<>> /\ state.queries[1] = state.query

\* A deep plan that added two queries, carried through validate.
C4_Witness ==
    /\ Ended
    /\ Len(state.queries) >= 3
    /\ Last(trace) = "validate"

\* The attempts of the llm request that raised.
RaisedAttempts(request) ==
    Cardinality({ j \in 1..Len(calls.llm) :
                    calls.llm[j].request = request /\ calls.llm[j].raised })

\* The stage that ran last.
JustRan(node) == trace # <<>> /\ Last(trace) = node

SynthesizeFailed ==
    calls.context = "raises" \/ RaisedAttempts("synthesize") = StopAfterAttempt

PlanFailed ==
    \/ RaisedAttempts("hyde") = StopAfterAttempt
    \/ RaisedAttempts("multi_query") = StopAfterAttempt

HasPlanError ==
    Len(state.error) >= 3 /\ SubSeq(state.error, 1, 3) = <<"plan_error", ":", " ">>

HandlerPrefix(error) ==
    << CASE error[1] = "extract_error" -> "extract_template"
         [] error[1] = "plan_error" -> "plan_template"
         [] error[1] = "retrieve_error" -> "retrieve_template"
         [] error[1] = "synthesize_error" -> "synthesize_template"
         [] OTHER -> "generic_template",
       "\n", "\n", "cuo", "wu", "xiang", "qing", "fw:" >>

C15_ExistingAnswerKept ==
    [][(pc = "error_handler" /\ state.answer # <<>>) =>
         /\ state'.answer = state.answer
         /\ state'.metrics.error_handled = TRUE]_vars

\* C18: once retrieve_node has returned, with or without failed attempts,
\* the retriever's search_kwargs are what they were before the stage: no
\* filter stays installed.
C18_FilterRestored ==
    Ran("retrieve") => retriever.search_kwargs = [filter |-> NoFilters]

LlmRequests == {"hyde", "multi_query", "synthesize"}

\* The positions in the llm log of the attempts of a request.
AttemptsOf(request) == { j \in 1..Len(calls.llm) : calls.llm[j].request = request }

\* C19 as stated: the llm is called once for each request.
C19_OneCallPerRequest ==
    \A r \in LlmRequests : Cardinality(AttemptsOf(r)) <= 1

\* C19, amended: a request that is made takes one to three attempts, each
\* made because the one before raised; the stage records its error exactly
\* when a third attempt has raised (or, in synthesize_node, when the context
\* could not be built).
C19_AtMostThreeAttempts ==
    (JustRan("plan") \/ JustRan("synthesize")) =>
        /\ \A r \in LlmRequests :
              LET at == AttemptsOf(r)
              IN  /\ Cardinality(at) <= 3
                  /\ \A j \in at : (\E l \in at : l > j) => calls.llm[j].raised
                  /\ \A j \in at :
                        (calls.llm[j].raised /\ ~\E l \in at : l > j)
                            => Cardinality(at) = 3
        /\ state.error # <<>> <=>
              \/ \E r \in LlmRequests : RaisedAttempts(r) = 3
              \/ calls.context = "raises"

\* The synthesis request returned on its third attempt and left no error.
C19_Witness ==
    /\ JustRan("synthesize")
    /\ Len(calls.llm) = 3
    /\ calls.llm[1].raised /\ calls.llm[2].raised /\ ~calls.llm[3].raised
    /\ state.error = <<>>

FullOrder ==
    (IF deps.extract_service THEN <<"extract">> ELSE <<>>)
    \o <<"plan", "retrieve", "synthesize", "validate">>

\* The stages run so far are the first stages of FullOrder, each once, with
\* error_handler after them if the run was diverted.
TraceInOrder ==
    LET stages == IF JustRan("error_handler")
                  THEN SubSeq(trace, 1, Len(trace) - 1) ELSE trace
    IN  /\ Len(stages) <= Len(FullOrder)
        /\ \A i \in 1..Len(stages) : stages[i] = FullOrder[i]

RetrievePolicies ==
    { [DefaultPolicy EXCEPT !.top_k = k, !.use_hyde = on[1], !.use_rrf = on[2]] :
        k \in 0..MaxK, on \in {<<FALSE, FALSE>>, <<TRUE, FALSE>>, <<FALSE, TRUE>>} }

InitRetrieve ==
    /\ arg = <<>>
    /\ ret = <<>>
    /\ policy \in RetrievePolicies
    /\ deps = [extract_service |-> FALSE, bm25_search_fn |-> TRUE, rrf_fuse_fn |-> TRUE]
    /\ retriever = [page |-> MaxResults, search_kwargs |-> [filter |-> NoFilters]]
    /\ \E query \in Queries :
        LET out == [fault |-> NoFault, hyde |-> <<"h">>, mq |-> <<>>]
            st == InitialState(query, <<>>)
        IN  /\ state = plan_node(st, policy, out)
            /\ calls = [NoCalls EXCEPT !.llm = PlanCalls(st, policy, out)]
    /\ pc = "retrieve"
    /\ trace = <<"plan">>

SpecRetrieve == InitRetrieve /\ [][Retrieve]_vars

(***************************************************************************)
(* Properties of retrieve_node.                                            *)
(***************************************************************************)
Retrieved == trace # <<>> /\ Last(trace) = "retrieve"

\* The queries whose vector call raised on every one of its attempts.
FailedVecQueries ==
    { i \in 1..Len(state.queries) :
        Cardinality({ j \in 1..Len(calls.vec) :
                        calls.vec[j].pos = i /\ calls.vec[j].raised }) = StopAfterAttempt }

\* C5: after retrieve_node, no two documents of docs resolve to the same
\* identifier.
C5_DocsHaveDistinctIds ==
    Retrieved =>
        \A i, j \in 1..Len(state.docs) :
            i # j => DocId(state.docs[i]) # DocId(state.docs[j])

\* Fusion of vector and lexical results that share an identifier, giving two
\* documents.
C5_Witness ==
    /\ Retrieved
    /\ state.metrics.rrf_on
    /\ Len(state.docs) = 2
    /\ \E e \in Range(calls.vec), b \in Range(calls.bm25) :
        \E d1 \in Range(e.docs), d2 \in Range(b.docs) : DocId(d1) = DocId(d2)

\* The vector search of the i-th query returned.
VecSucceeded(i) ==
    \E j \in 1..Len(calls.vec) : calls.vec[j].pos = i /\ ~calls.vec[j].raised

LexicalFailed ==
    /\ Len(calls.bm25) = StopAfterAttempt
    /\ \A j \in 1..Len(calls.bm25) : calls.bm25[j].raised

\* What the vector calls returned, each cut to top_k, in call order.
RECURSIVE VecReturned(_, _)
VecReturned(log, top_k) ==
    IF log = <<>> THEN <<>>
    ELSE (IF Head(log).raised THEN <<>>
          ELSE SubSeq(Head(log).docs, 1, Min(top_k, Len(Head(log).docs))))
         \o VecReturned(Tail(log), top_k)

\* The first occurrence of each identifier in docs is kept, the others are not.
FirstOfEachId(docs) ==
    LET keep == { i \in 1..Len(docs) :
                    \A j \in 1..(i - 1) : DocId(docs[j]) # DocId(docs[i]) }
        nth[n \in 1..Cardinality(keep)] ==
            CHOOSE i \in keep : Cardinality({ j \in keep : j < i }) = n - 1
    IN  [n \in 1..Cardinality(keep) |-> docs[nth[n]]]

\* C11: when fusion is on and the lexical call has failed, no error is
\* recorded, docs is the first top_k of the deduplicated vector results, as
\* without fusion, and synthesize is next.
C11_LexicalFailureFallsBack ==
    (Retrieved /\ LexicalFailed) =>
        LET vec == FirstOfEachId(VecReturned(calls.vec, policy.top_k))
        IN  /\ state.error = <<>>
            /\ state.docs = SubSeq(vec, 1, Min(policy.top_k, Len(vec)))
            /\ state.metrics.rrf_on
            /\ pc = "synthesize"

\* A lexical failure after the vector call returned two documents with
\* different identifiers, both kept.
C11_Witness ==
    /\ Retrieved
    /\ LexicalFailed
    /\ Len(state.docs) = 2
    /\ pc = "synthesize"

Idle ==
    /\ policy = <<>>
    /\ deps = <<>>
    /\ retriever = <<>>
    /\ state = <<>>
    /\ trace = <<>>
    /\ calls = <<>>

(***************************************************************************)
(* simple_rrf_fuse on its own: Init draws the runs, k and c.               *)
(***************************************************************************)
FuseArgs ==
    [runs : SeqsUpTo(SeqsUpTo(Corpus, MaxRunLen), MaxRuns), k : 0..MaxK, c : {0, RrfC}]

InitFuse ==
    /\ pc = "call"
    /\ arg \in FuseArgs
    /\ ret = <<>>
    /\ Idle

Fuse ==
    /\ pc = "call"
    /\ pc' = "ret"
    /\ ret' = simple_rrf_fuse(arg.runs, arg.k, arg.c)
    /\ UNCHANGED <<arg, policy, deps, retriever, state, trace, calls>>

SpecFuse == InitFuse /\ [][Fuse]_vars

(***************************************************************************)
(* default_build_context on its own: Init draws the documents and          *)
(* max_chars.                                                              *)
(***************************************************************************)
\* Documents titled by title, by source, by _id and by position, with
\* contents that strip() shortens or empties.
CtxDocs ==
    { Doc(<<"a">>, <<>>, <<"T">>, <<"S">>, <<"x">>),
      Doc(<<>>, <<"b">>, <<>>, <<"S">>, <<" ", "x", "\n">>),
      Doc(<<"a">>, <<"b">>, <<>>, <<>>, <<"x", " ", "y">>),
      Doc(<<"a">>, <<>>, <<>>, <<>>, <<" ">>),
      dH }

CtxArgs == [docs : SeqsUpTo(CtxDocs, MaxCtxDocs), max_chars : 0..MaxChars]

InitCtx ==
    /\ pc = "call"
    /\ arg \in CtxArgs
    /\ ret = <<>>
    /\ Idle

BuildContext ==
    /\ pc = "call"
    /\ pc' = "ret"
    /\ ret' = default_build_context(arg.docs, arg.max_chars)
    /\ UNCHANGED <<arg, policy, deps, retriever, state, trace, calls>>

SpecCtx == InitCtx /\ [][BuildContext]_vars

(***************************************************************************)
(* Claims about the context assembler.                                     *)
(***************************************************************************)
\* C7: for every document list and every max_chars the assembled context,
\* separators between blocks included, is at most max_chars characters long.
C7_ContextWithinMaxChars ==
    pc = "ret" => Len(ret) <= arg.max_chars

\* The blocks of the first n documents, in input order.
BlocksOfPrefix(docs, n) == [i \in 1..n |-> Piece(docs[i], i)]

\* C24: the context is made of the whole blocks of the first n documents, in
\* input order with the newline separator between them, where n stops at the
\* first block that would take the cumulative block length over max_chars:
\* nothing after that block is included, and no block is cut.
C24_WholeBlocksOfPrefix ==
    pc = "ret" =>
        \E n \in 0..Len(arg.docs) :
            /\ ret = Join(BlocksOfPrefix(arg.docs, n), <<"\n">>)
            /\ SumLens(BlocksOfPrefix(arg.docs, n)) <= arg.max_chars
            /\ n < Len(arg.docs) =>
                   SumLens(BlocksOfPrefix(arg.docs, n + 1)) > arg.max_chars

\* the first block does not fit and the second, smaller one would: nothing is
\* emitted
C24_Witness ==
    /\ pc = "ret"
    /\ Len(arg.docs) = 2
    /\ Len(Piece(arg.docs[1], 1)) > arg.max_chars
    /\ Len(Piece(arg.docs[2], 2)) <= arg.max_chars
    /\ ret = <<>>

\* The title by the stated priority: title, then source, then the metadata
\* key "id", then "doc<n>".
TitleByPriority(d, n) == Or(d.title, Or(d.source, Or(d.id, <<"d", "o", "c">> \o IntStr(n))))

\* C25: every emitted block is headed by the title resolved in the order
\* metadata.title, metadata.source, metadata.id, "doc<n>"; a document with
\* only metadata.id is titled with that id.
C25_TitlePriority ==
    (pc = "ret" /\ Len(arg.docs) >= 1 /\ Len(Piece(arg.docs[1], 1)) <= arg.max_chars) =>
        LET head == <<"[">> \o TitleByPriority(arg.docs[1], 1) \o <<"]", "\n">>
        IN  /\ Len(ret) >= Len(head)
            /\ SubSeq(ret, 1, Len(head)) = head

(***************************************************************************)
(* Claims about rank fusion.                                               *)
(***************************************************************************)
RunIds(runs) == {DocId(e.doc) : e \in Range(WalkRuns(runs))}

OutIds(out) == {DocId(d) : d \in Range(out)}

\* C8: the fused list is ordered by fused score, descending: a document never
\* precedes one of strictly greater score.
C8_FusedSortedByScore ==
    pc = "ret" =>
        \A i, j \in 1..Len(ret) :
            i < j => Score(arg.runs, arg.c, DocId(ret[i])) >= Score(arg.runs, arg.c, DocId(ret[j]))

\* C9: the fused list has exactly min(k, number of distinct identifiers)
\* documents, no identifier twice, leaves out no identifier that scores
\* strictly higher than an emitted one, and is empty for empty runs or k = 0.
C9_FuseCardinality ==
    pc = "ret" =>
        LET ids == RunIds(arg.runs)
        IN  /\ Len(ret) = Min(arg.k, Cardinality(ids))
            /\ \A i, j \in 1..Len(ret) : i # j => DocId(ret[i]) # DocId(ret[j])
            /\ OutIds(ret) \subseteq ids
            /\ \A x \in ids \ OutIds(ret) : \A e \in OutIds(ret) :
                    ~ (Score(arg.runs, arg.c, x) > Score(arg.runs, arg.c, e))
            /\ (arg.runs = <<>> \/ arg.k = 0) => ret = <<>>

\* k cuts the candidates: an identifier is left out and it scores strictly
\* lower than an emitted one.
C9_Witness ==
    /\ pc = "ret"
    /\ arg.k >= 1
    /\ Len(ret) = arg.k
    /\ \E x \in RunIds(arg.runs) \ OutIds(ret) : \E e \in OutIds(ret) :
            Score(arg.runs, arg.c, x) < Score(arg.runs, arg.c, e)

\* All of run 1, then run 2, ...
RECURSIVE Flatten(_)
Flatten(runs) == IF runs = <<>> THEN <<>> ELSE Head(runs) \o Flatten(Tail(runs))

\* C23: the fused list holds, for each identifier it keeps, the first
\* document with that identifier met when the runs are walked in their
\* order, and holds them in the order they are met; runs [[A, B], [B, A]]
\* with k = 2 give A then B.
C23_FusedInFirstSeenOrder ==
    pc = "ret" =>
        LET kept(d) == DocId(d) \in OutIds(ret)
        IN  /\ ret = SelectSeq(FirstOfEachId(Flatten(arg.runs)), kept)
            /\ (arg.runs = <<<<dA, dH>>, <<dH, dA>>>> /\ arg.k = 2) => ret = <<dA, dH>>

\* The runs [[A, B], [B, A]] fused with k = 2.
C23_Witness ==
    /\ pc = "ret"
    /\ arg.runs = <<<<dA, dH>>, <<dH, dA>>>>
    /\ arg.k = 2
    /\ ret = <<dA, dH>>

(***************************************************************************)
(* plan_node on its own: Init draws the query, the policy and what the llm *)
(* does; ret is the state plan_node returns and the llm attempts it made.  *)
(***************************************************************************)
\* Queries of 1, 7, 8 and 11 characters; the last holds an ambiguity marker.
PlanQueries ==
    { <<"Q">>,
      <<"d", "i", "s", "k", " ", "f", "u">>,
      <<"d", "i", "s", "k", " ", "f", "u", "l">>,
      <<"d", "i", "s", "k", " ", "f", "u", "l", "l", "yi", "chang">> }

PlanPolicies ==
    { [DefaultPolicy EXCEPT !.use_hyde = h, !.use_multi_query = m, !.multi_query_alts = n] :
        h \in BOOLEAN, m \in BOOLEAN, n \in 0..MaxAlts }

\* Lines of a multi-query completion: a bulleted alternative, the query "Q"
\* in lower case, and an empty line.
PlanLines == { <<"-", " ", "r">>, <<"bullet", "q">>, <<>> }

\* No failing attempt, one that is retried, and the first or the second call
\* failing for good.
PlanFaults ==
    { NoFault, [call |-> 1, fails |-> 1],
      [call |-> 1, fails |-> StopAfterAttempt], [call |-> 2, fails |-> StopAfterAttempt] }

PlanArgs ==
    [query : PlanQueries, pol : PlanPolicies,
     out : [fault : PlanFaults, hyde : HydeTexts,
            mq : {Join(lines, <<"\n">>) : lines \in SeqsUpTo(PlanLines, MaxLines)}]]

InitPlan ==
    /\ pc = "call"
    /\ arg \in PlanArgs
    /\ ret = <<>>
    /\ Idle

CallPlan ==
    /\ pc = "call"
    /\ pc' = "ret"
    /\ LET st == InitialState(arg.query, <<>>)
       IN  ret' = [state |-> plan_node(st, arg.pol, arg.out),
                   llm |-> PlanCalls(st, arg.pol, arg.out)]
    /\ UNCHANGED <<arg, policy, deps, retriever, state, trace, calls>>

SpecPlan == InitPlan /\ [][CallPlan]_vars

\* t occurs in q as a run of consecutive characters.
OccursIn(t, q) ==
    \E i \in 1..(Len(q) - Len(t) + 1) : \A j \in 1..Len(t) : q[i + j - 1] = t[j]

C17_QueriesWithinCap ==
    pc = "ret" =>
        Len(ret.state.queries)
            <= 1 + arg.pol.multi_query_alts + (IF arg.pol.use_hyde THEN 2 ELSE 0)

(***************************************************************************)
(* Two requests in the thread pool of the route, each in one call of       *)
(* _retrieve_with_retry on the retriever the module-level graph_app        *)
(* shares.  search_kwargs is a reference to a dict: retriever.heap holds   *)
(* the dicts, retriever.ref the one search_kwargs points to.  A step is    *)
(* what runs without a thread switch: reading the attribute, copying the   *)
(* dict read, storing into the dict read, the search, assigning the        *)
(* attribute.  state[r] is the request's locals, calls the searches made.  *)
(***************************************************************************)
Requests == {1, 2}

\* The filters the two requests bring: none, or the host each one extracted.
RequestFilters(r) ==
    { NoFilters,
      [NoFilters EXCEPT !.hostname = IF r = 1 THEN <<"h">> ELSE <<"g">>] }

\* if hasattr(retriever, "search_kwargs") and metadata_filters: ... else: ...
FirstStep(filters) == IF filters # NoFilters THEN "read_for_copy" ELSE "search"

InitShared ==
    /\ arg = <<>>
    /\ ret = <<>>
    /\ policy = <<>>
    /\ deps = <<>>
    /\ trace = <<>>
    /\ retriever = [heap |-> <<[filter |-> NoFilters]>>, ref |-> 1]
    /\ \E f \in [Requests -> UNION {RequestFilters(r) : r \in Requests}] :
        /\ \A r \in Requests : f[r] \in RequestFilters(r)
        /\ state = [r \in Requests |-> [filters |-> f[r], read |-> 0, original_kwargs |-> 0]]
        /\ pc = [r \in Requests |-> FirstStep(f[r])]
    /\ calls = <<>>

\* retriever.search_kwargs, read before .copy() and before ["filter"] = ...
ReadKwargs(r) ==
    /\ pc[r] \in {"read_for_copy", "read_for_set"}
    /\ state' = [state EXCEPT ![r].read = retriever.ref]
    /\ pc' = [pc EXCEPT ![r] = IF @ = "read_for_copy" THEN "copy" ELSE "set"]
    /\ UNCHANGED <<arg, ret, policy, deps, retriever, trace, calls>>

\* original_kwargs = <the dict read>.copy()
CopyKwargs(r) ==
    /\ pc[r] = "copy"
    /\ retriever' = [retriever EXCEPT !.heap = Append(@, @[state[r].read])]
    /\ state' = [state EXCEPT ![r].original_kwargs = Len(retriever.heap) + 1]
    /\ pc' = [pc EXCEPT ![r] = "read_for_set"]
    /\ UNCHANGED <<arg, ret, policy, deps, trace, calls>>

\* <the dict read>["filter"] = metadata_filters
SetFilter(r) ==
    /\ pc[r] = "set"
    /\ retriever' = [retriever EXCEPT !.heap[state[r].read].filter = state[r].filters]
    /\ pc' = [pc EXCEPT ![r] = "search"]
    /\ UNCHANGED <<arg, ret, policy, deps, state, trace, calls>>

\* docs = retriever.get_relevant_documents(query), which searches with the
\* search_kwargs the retriever has at that moment.
Search(r) ==
    /\ pc[r] = "search"
    /\ calls' = Append(calls, [request |-> r,
                               filter |-> retriever.heap[retriever.ref].filter])
    /\ pc' = [pc EXCEPT ![r] = IF state[r].filters # NoFilters THEN "restore" ELSE "done"]
    /\ UNCHANGED <<arg, ret, policy, deps, retriever, state, trace>>

\* retriever.search_kwargs = original_kwargs
RestoreKwargs(r) ==
    /\ pc[r] = "restore"
    /\ retriever' = [retriever EXCEPT !.ref = state[r].original_kwargs]
    /\ pc' = [pc EXCEPT ![r] = "done"]
    /\ UNCHANGED <<arg, ret, policy, deps, state, trace, calls>>

NextShared ==
    \E r \in Requests :
        ReadKwargs(r) \/ CopyKwargs(r) \/ SetFilter(r) \/ Search(r) \/ RestoreKwargs(r)

SpecShared == InitShared /\ [][NextShared]_vars

HandlerStages == {"extract_error", "plan_error", "retrieve_error", "synthesize_error"}

\* the words of an exception message
DetailWords == {"boom"} \cup HandlerStages

\* The texts the nodes record, and one that came with the initial state.
\* extract_node and synthesize_node record str(e) of an exception raised
\* outside the retried call as it is; the detail after exhausted retries is
\* that of the RetryError.
HandlerErrors ==
    { ErrorText(stage, detail) : stage \in {"extract_error", "synthesize_error"},
                                 detail \in SeqsUpTo(DetailWords, MaxDetail) }
    \cup { ErrorText(stage, RetryErrorMsg) : stage \in HandlerStages }
    \cup { <<"boom">> }

HandlerArgs == [error : HandlerErrors, answer : { <<>>, <<"fallback_text">> }]

InitHandler ==
    /\ pc = "call"
    /\ arg \in HandlerArgs
    /\ ret = <<>>
    /\ Idle

HandleError ==
    /\ pc = "call"
    /\ pc' = "ret"
    /\ ret' = error_handler_node([InitialState(<<"Q">>, <<>>) EXCEPT !.error = arg.error,
                                                                    !.answer = arg.answer])
    /\ UNCHANGED <<arg, policy, deps, retriever, state, trace, calls>>

SpecHandler == InitHandler /\ [][HandleError]_vars

\* The template that belongs to the prefix of an error text.
TemplateOfPrefix(error_msg) ==
    IF Len(error_msg) >= 2 /\ error_msg[1] \in HandlerStages /\ error_msg[2] = ":"
    THEN CASE error_msg[1] = "extract_error" -> "extract_template"
           [] error_msg[1] = "plan_error" -> "plan_template"
           [] error_msg[1] = "retrieve_error" -> "retrieve_template"
           [] error_msg[1] = "synthesize_error" -> "synthesize_template"
    ELSE "generic_template"

\* C27: the fallback message of error_handler_node is the template of the
\* stage whose prefix the error text begins with, whatever the detail after
\* the prefix says, and the generic template for any other error text.
C27_TemplateByPrefix ==
    pc = "ret" => ret.answer[1] = TemplateOfPrefix(arg.error)

(***************************************************************************)
(* synthesize_node on its own, for completions made of the fragments the   *)
(* citation check looks for, and of others.                                *)
(***************************************************************************)
CiteFragments ==
    { <<"s", "o", "u", "r", "c", "e">>, <<"lai", "yuan">>, <<"[">>, <<"lai">>,
      <<"o", "k">>, <<" ">> }

CiteTexts == { Join(fs, <<>>) : fs \in SeqsUpTo(CiteFragments, MaxFragments) }

CiteArgs == [strict_citation : BOOLEAN, out : [assembly : {"ok"}, fault : Faults(1), text : CiteTexts]]

InitCite ==
    /\ pc = "call"
    /\ arg \in CiteArgs
    /\ ret = <<>>
    /\ Idle

CallSynthesize ==
    /\ pc = "call"
    /\ pc' = "ret"
    /\ ret' = synthesize_node(InitialState(<<"Q">>, <<>>),
                              [DefaultPolicy EXCEPT !.strict_citation = arg.strict_citation],
                              arg.out)
    /\ UNCHANGED <<arg, policy, deps, retriever, state, trace, calls>>

SpecCite == InitCite /\ [][CallSynthesize]_vars

\* The completion carries a trace of citation: "source", its Chinese
\* counterpart, or "[".
Cited(text) ==
    \/ Contains(text, <<"s", "o", "u", "r", "c", "e">>)
    \/ Contains(text, <<"lai", "yuan">>)
    \/ Contains(text, <<"[">>)

\* C28: when synthesize_node succeeds, the answer is the stripped completion,
\* followed by the disclaimer exactly when strict_citation is true and the
\* completion contains none of "source", its Chinese counterpart and "[".
C28_DisclaimerWhenUncited ==
    (pc = "ret" /\ ret.error = <<>>) =>
        LET text == Strip(arg.out.text)
        IN  ret.answer = IF arg.strict_citation /\ ~Cited(text)
                         THEN text \o Disclaimer ELSE text

(***************************************************************************)
(* Retries of the provider calls, over the stages of a run.                *)
(***************************************************************************)
\* The positions in the vector log of the attempts for the i-th query.
VecAttemptsOf(i) == { j \in 1..Len(calls.vec) : calls.vec[j].pos = i }

\* Some attempt of the stage that ran last raised.
AnyRaised ==
    \/ \E j \in 1..Len(calls.llm) : calls.llm[j].raised
    \/ \E j \in 1..Len(calls.vec) : calls.vec[j].raised
    \/ \E j \in 1..Len(calls.bm25) : calls.bm25[j].raised

\* A call of the stage that ran last raised on its last attempt.
LlmOrVecExhausted ==
    \/ \E r \in LlmRequests : RaisedAttempts(r) = StopAfterAttempt
    \/ FailedVecQueries # {}

LexExhausted ==
    Cardinality({ j \in 1..Len(calls.bm25) : calls.bm25[j].raised }) = StopAfterAttempt

\* Every failure of the stage that ran last was made good by a later attempt.
Recovered == AnyRaised /\ ~LlmOrVecExhausted /\ ~LexExhausted

\* The documents the provider returned for the i-th query.
ReturnedVec(i) ==
    LET j == CHOOSE j \in VecAttemptsOf(i) : ~calls.vec[j].raised IN calls.vec[j].docs

ReturnedLex ==
    IF calls.bm25 = <<>> THEN <<>> ELSE calls.bm25[Len(calls.bm25)].docs

\* Each call is attempted at most three times, and a stage that attempted
\* calls has an error only when a call raised on its last attempt.
RetriesBounded ==
    /\ \A r \in LlmRequests : Cardinality(AttemptsOf(r)) <= StopAfterAttempt
    /\ \A i \in 1..Len(state.queries) : Cardinality(VecAttemptsOf(i)) <= StopAfterAttempt
    /\ Len(calls.bm25) <= StopAfterAttempt
    /\ Recovered => state.error = <<>>
    /\ (AnyRaised /\ state.error # <<>>) => LlmOrVecExhausted

\* A stage whose failures were all made good returns what it returns when
\* every call answers at once.
SameAsFirstAttempt ==
    Recovered' =>
        /\ pc = "plan" =>
               \E hyde \in HydeTexts : \E mq \in MultiQueryTexts :
                   state' = plan_node(state, policy, [fault |-> NoFault, hyde |-> hyde, mq |-> mq])
        /\ pc = "retrieve" =>
               state' = retrieve_node(state, policy, deps,
                                      [fault |-> NoFault,
                                       vec |-> [i \in 1..Len(state.queries) |-> ReturnedVec(i)'],
                                       lex |-> ReturnedLex'])
        /\ pc = "synthesize" =>
               \E text \in AnswerTexts :
                   state' = synthesize_node(state, policy,
                                            [assembly |-> "ok", fault |-> NoFault, text |-> text])

\* C30: each provider call (the HyDE, multi-query and synthesis completions,
\* the vector search of each query, the lexical search) is attempted at most
\* three times; a stage records an error only when a call raised on its last
\* attempt; and when a later attempt returns, the stage leaves no error and
\* its result is the one of a run in which every call returned at once.
C30_RetriesBoundedAndLocal == []RetriesBounded /\ [][SameAsFirstAttempt]_vars

\* The vector search of a query returned documents on its third attempt.
C30_Witness ==
    /\ JustRan("retrieve")
    /\ \E i \in 1..Len(state.queries) :
           Cardinality(VecAttemptsOf(i)) = StopAfterAttempt /\ VecSucceeded(i)
    /\ state.error = <<>>
    /\ state.docs # <<>>

====
